---- MODULE Spec2Model ----
(***************************************************************************)
(* A model of the limit-order book of src/Orderbook.cpp: the two side      *)
(* books bids_ and asks_, the id index orders_, the aggregate table data_, *)
(* the book mutex ordersMutex_, one caller thread running AddOrder,        *)
(* CancelOrder and ModifyOrder, the expiry thread running                  *)
(* PruneGoodForDayOrders, a reader thread calling GetOrderInfos, and the   *)
(* owner of the book running its destructor.                               *)
(*                                                                         *)
(* Every critical section of the code is one step, except the matching     *)
(* loop of MatchOrders, which takes one step per trade.  The mutex is held *)
(* between these steps, and a state where ordersMutex = NoThread is a      *)
(* critical-section boundary.                                              *)
(***************************************************************************)
EXTENDS Integers, Sequences, FiniteSets, TLC

\* Bounds of the model: prices 1..MaxPrice, quantities 1..MaxQuantity and
\* order ids 1..MaxOrderId; in a session, order ids 1..MaxSessionOrderId and
\* at most MaxCalls calls; beside a reader, at most MaxSnapshotCalls calls.
MaxPrice == 2
MaxQuantity == 2
MaxOrderId == 2
MaxSessionOrderId == 3
MaxCalls == 4
MaxSnapshotCalls == 2

Prices == 1..MaxPrice
Quantities == 1..MaxQuantity
OrderIds == 1..MaxOrderId
SessionOrderIds == 1..MaxSessionOrderId
Sides == {"Buy", "Sell"}
OrderTypes == {"GoodTillCancel", "GoodForDay", "FillAndKill", "FillOrKill", "Market"}

\* A value that is no price of the model: what an unpriced (Market) order
\* carries before admission.
NoPrice == MaxPrice + 1

Threads == {"caller", "worker", "reader", "owner"}
NoThread == "none"
NoSession == MaxCalls + 1

VARIABLES
    bids,         \* bids_: price -> queue of orders, best price = highest key
    asks,         \* asks_: price -> queue of orders, best price = lowest key
    orders,       \* orders_: order id -> the order it refers to
    data,         \* data_: price -> [count, quantity]
    ordersMutex,  \* the thread that holds ordersMutex_, or NoThread
    pc,           \* where each thread is
    call,         \* the caller's current call: operation, order, locals
    trades,       \* the local `trades` of MatchOrders, then the returned list
    orderIds,     \* the local `orderIds` of PruneGoodForDayOrders
    arrival,      \* history: per side and price, the ids queued there, in order of insertion
    calls,        \* history: the number of calls made in a session
    infos,        \* the level infos GetOrderInfos has read so far
    seen,         \* history: the level infos of the book at every critical-section
                  \* boundary since a reader thread was started
    shutdown,     \* shutdown_
    notified,     \* shutdownConditionVariable_: the waiting worker has been notified
    before        \* history: the book when the ModifyOrder call whose result the
                  \* caller keeps was made

vars == <<bids, asks, orders, data, ordersMutex, pc, call, trades, orderIds, arrival, calls,
          infos, seen, shutdown, notified, before>>
book == <<bids, asks, orders, data>>

----------------------------------------------------------------------------
\* Containers

Put(f, k, v) == [x \in (DOMAIN f) \cup {k} |-> IF x = k THEN v ELSE f[x]]
Erase(f, k) == [x \in (DOMAIN f) \ {k} |-> f[x]]
EmptyMap == [x \in {} |-> 0]

Max(S) == CHOOSE x \in S : \A y \in S : y <= x
Min(S) == CHOOSE x \in S : \A y \in S : x <= y

RECURSIVE SumSeq(_)
SumSeq(s) == IF s = <<>> THEN 0 ELSE Head(s) + SumSeq(Tail(s))

\* The sum of GetRemainingQuantity() over a queue.
RECURSIVE SumRemaining(_)
SumRemaining(queue) ==
    IF queue = <<>> THEN 0 ELSE Head(queue).remaining + SumRemaining(Tail(queue))

\* All orderings of a finite set, as sequences without repetition.
Orderings(S) ==
    {s \in [1..Cardinality(S) -> S] : \A i, j \in 1..Cardinality(S) : s[i] = s[j] => i = j}

\* An order object.  `remaining` is GetRemainingQuantity(); the object is
\* shared by its queue and by the id index, so a fill is written to both.
Order(type, id, side, price, quantity) ==
    [id |-> id, side |-> side, price |-> price, type |-> type, remaining |-> quantity]

----------------------------------------------------------------------------
\* The aggregate table

\* Quantity is a 32-bit unsigned integer.  A value is held as the integer
\* congruent to it modulo 2^32 that lies in -2^31 .. 2^31 - 1, so that 0 - 2 is
\* held as -2 and stands for 4294967294.  Sums and differences of such
\* integers are exact while they stay in that range, which the bounds of the
\* model guarantee; the order of two values is the order of what they stand for.
QuantityLessEq(a, b) ==
    IF (a >= 0) = (b >= 0) THEN a <= b ELSE a >= 0

\* std::unordered_map::operator[]: a missing key is value-initialised.
LevelAt(d, price) == IF price \in DOMAIN d THEN d[price] ELSE [count |-> 0, quantity |-> 0]

UpdateLevelData(d, price, quantity, action) ==
    LET cur == LevelAt(d, price)
        count == cur.count + (IF action = "Remove" THEN -1 ELSE IF action = "Add" THEN 1 ELSE 0)
        qty == IF action \in {"Remove", "Match"}
               THEN cur.quantity - quantity
               ELSE cur.quantity + quantity
    IN  IF count = 0
        THEN Erase(d, price)
        ELSE Put(d, price, [count |-> count, quantity |-> qty])

OnOrderCancelled(d, order) == UpdateLevelData(d, order.price, order.remaining, "Remove")

OnOrderAdded(d, order) == UpdateLevelData(d, order.price, order.remaining, "Add")

OnOrderMatched(d, price, quantity, isFullyFilled) ==
    UpdateLevelData(d, price, quantity, IF isFullyFilled THEN "Remove" ELSE "Match")

----------------------------------------------------------------------------
\* Best and worst prices: bids_ is ordered by std::greater, asks_ by std::less.

BestBid(b) == Max(DOMAIN b)
BestAsk(a) == Min(DOMAIN a)
WorstBid(b) == Min(DOMAIN b)
WorstAsk(a) == Max(DOMAIN a)

CanMatch(b, a, side, price) ==
    IF side = "Buy"
    THEN DOMAIN a # {} /\ price >= BestAsk(a)
    ELSE DOMAIN b # {} /\ price <= BestBid(b)

\* The loop of CanFullyFill over data_, visited in the order `levels`.
RECURSIVE FullyFillWalk(_, _, _, _, _, _)
FullyFillWalk(levels, d, side, price, threshold, quantity) ==
    IF levels = <<>> THEN FALSE
    ELSE LET levelPrice == Head(levels)
             levelData == d[levelPrice]
         IN  IF (side = "Buy" /\ threshold > levelPrice) \/ (side = "Sell" /\ threshold < levelPrice)
             THEN FullyFillWalk(Tail(levels), d, side, price, threshold, quantity)
             ELSE IF (side = "Buy" /\ levelPrice > price) \/ (side = "Sell" /\ levelPrice < price)
             THEN FullyFillWalk(Tail(levels), d, side, price, threshold, quantity)
             ELSE IF QuantityLessEq(quantity, levelData.quantity)
             THEN TRUE
             ELSE FullyFillWalk(Tail(levels), d, side, price, threshold,
                                quantity - levelData.quantity)

\* data_ is an unordered_map: `levels` is the order its iteration happens to take.
CanFullyFill(b, a, d, levels, side, price, quantity) ==
    IF ~CanMatch(b, a, side, price) THEN FALSE
    ELSE FullyFillWalk(levels, d, side, price,
                       IF side = "Buy" THEN BestAsk(a) ELSE BestBid(b), quantity)

----------------------------------------------------------------------------
\* Cancellation

RemoveId(queue, orderId) == SelectSeq(queue, LAMBDA o : o.id # orderId)

\* A book is a record [bids, asks, orders, data].
Book(b, a, o, d) == [bids |-> b, asks |-> a, orders |-> o, data |-> d]

\* Lines 129-130 and 138-139 left out: an emptied queue keeps its price key.
EraseFromLevelKeepsKey(levels, price, orderId) ==
    Put(levels, price, RemoveId(levels[price], orderId))

\* Lines 127-130 and 136-139.
EraseFromLevel(levels, price, orderId) ==
    LET queue == RemoveId(levels[price], orderId)
    IN  IF queue = <<>> THEN Erase(levels, price) ELSE Put(levels, price, queue)

\* CancelOrderInternal without lines 125-140: the order leaves the id index
\* and the aggregate, and stays in its queue.
CancelOrderInternalKeepsQueue(bk, orderId) ==
    IF orderId \notin DOMAIN bk.orders THEN bk
    ELSE Book(bk.bids, bk.asks, Erase(bk.orders, orderId),
              OnOrderCancelled(bk.data, bk.orders[orderId]))

\* CancelOrderInternal without line 123: the order leaves its queue and the
\* aggregate, and stays in the id index.
CancelOrderInternalKeepsIndex(bk, orderId) ==
    IF orderId \notin DOMAIN bk.orders THEN bk
    ELSE LET order == bk.orders[orderId]
             own == IF order.side = "Sell" THEN bk.asks ELSE bk.bids
             left == IF order.price \in DOMAIN own
                     THEN EraseFromLevel(own, order.price, orderId) ELSE own
         IN  Book(IF order.side = "Sell" THEN bk.bids ELSE left,
                  IF order.side = "Sell" THEN left ELSE bk.asks,
                  bk.orders,
                  OnOrderCancelled(bk.data, order))

\* Lines 117-143.
CancelOrderInternal(bk, orderId) ==
    IF orderId \notin DOMAIN bk.orders THEN bk
    ELSE LET order == bk.orders[orderId]
         IN  Book(IF order.side = "Sell" THEN bk.bids
                  ELSE EraseFromLevel(bk.bids, order.price, orderId),
                  IF order.side = "Sell"
                  THEN EraseFromLevel(bk.asks, order.price, orderId)
                  ELSE bk.asks,
                  Erase(bk.orders, orderId),
                  OnOrderCancelled(bk.data, order))

\* The loop left after its first pass.
CancelOrdersFirst(bk, ids) ==
    IF ids = <<>> THEN bk ELSE CancelOrderInternal(bk, Head(ids))

\* Lines 113-114.
RECURSIVE CancelOrdersLoop(_, _)
CancelOrdersLoop(bk, ids) ==
    IF ids = <<>> THEN bk
    ELSE CancelOrdersLoop(CancelOrderInternal(bk, Head(ids)), Tail(ids))

----------------------------------------------------------------------------
\* The order model (Order.h, OrderModify.h)

\* Order::ToGoodTillCancel: a Market order becomes GoodTillCancel at `price`.
ToGoodTillCancel(order, price) == [order EXCEPT !.type = "GoodTillCancel", !.price = price]

\* Order::Fill.
Fill(order, quantity) == [order EXCEPT !.remaining = order.remaining - quantity]

\* Order::IsFilled.
IsFilled(order) == order.remaining = 0

\* OrderModify::ToOrderPointer: a fresh order with the request's id, side,
\* price and quantity and the given type.
ToOrderPointer(request, type) ==
    Order(type, request.id, request.side, request.price, request.quantity)

\* Trade{ TradeInfo{id, price, quantity}, TradeInfo{id, price, quantity} }
Trade(bid, ask, quantity) ==
    [bid |-> [orderId |-> bid.id, price |-> bid.price, quantity |-> quantity],
     ask |-> [orderId |-> ask.id, price |-> ask.price, quantity |-> quantity]]

----------------------------------------------------------------------------
\* The caller's call frame: the operation, the order as it was submitted (for
\* ModifyOrder before its AddOrder, the id and the type read at line 438), and
\* the branch of AddOrder or ModifyOrder taken.
Frame(op, id, type, side, price, quantity, outcome) ==
    [op |-> op, id |-> id, type |-> type, side |-> side, price |-> price,
     quantity |-> quantity, outcome |-> outcome]

NoCall == Frame("none", 0, "none", "none", NoPrice, 0, "none")

\* The ids of the orders in the queues of one side, and of both.
RECURSIVE QueuedOn(_)
QueuedOn(levels) ==
    IF DOMAIN levels = {} THEN {}
    ELSE LET p == CHOOSE x \in DOMAIN levels : TRUE
         IN  {levels[p][i].id : i \in 1..Len(levels[p])} \cup QueuedOn(Erase(levels, p))

Queued(b, a) == QueuedOn(b) \cup QueuedOn(a)

\* The history of insertions, cut down to the orders still in a queue.
Resident(arr, b, a) ==
    LET queued == Queued(b, a)
    IN  [side \in Sides |-> [price \in Prices |->
            SelectSeq(arr[side][price], LAMBDA id : id \in queued)]]

Arrived(arr, order) ==
    [arr EXCEPT ![order.side][order.price] = Append(@, order.id)]

NoBook == Book(EmptyMap, EmptyMap, EmptyMap, EmptyMap)

\* GetOrderInfos, lines 457-470: per side, the total remaining quantity of each
\* price level.
LevelInfos(levels) == [price \in DOMAIN levels |-> SumRemaining(levels[price])]

OrderbookLevelInfos(bidInfos, askInfos) == [bids |-> bidInfos, asks |-> askInfos]

\* The book after construction, with a reader thread that is absent ("off")
\* or about to call GetOrderInfos ("idle").
Start(reader) ==
    /\ bids = EmptyMap
    /\ asks = EmptyMap
    /\ orders = EmptyMap
    /\ data = EmptyMap
    /\ ordersMutex = NoThread
    /\ pc = [t \in Threads |-> IF t = "caller" THEN "idle"
                                ELSE IF t = "worker" THEN "wait"
                                ELSE IF t = "owner" THEN "alive" ELSE reader]
    /\ call = NoCall
    /\ trades = <<>>
    /\ orderIds = {}
    /\ arrival = [side \in Sides |-> [price \in Prices |-> <<>>]]
    /\ calls = 0
    /\ infos = OrderbookLevelInfos(EmptyMap, EmptyMap)
    /\ seen = IF reader = "off" THEN {} ELSE {OrderbookLevelInfos(EmptyMap, EmptyMap)}
    /\ shutdown = FALSE
    /\ notified = FALSE
    /\ before = NoBook

Init == Start("off")

\* The history `seen` after a step: the level infos of the book are added
\* when the step ends at a critical-section boundary.
Seen ==
    seen' = IF pc["reader"] = "off" \/ ordersMutex' # NoThread THEN seen
            ELSE seen \cup {OrderbookLevelInfos(LevelInfos(bids'), LevelInfos(asks'))}

----------------------------------------------------------------------------
\* AddOrder, lines 368-416 up to the call of MatchOrders

\* The Market order rewritten at the worst opposite price (lines 375-389).
Rewritten(b, a, order) ==
    IF order.type # "Market" THEN order
    ELSE IF order.side = "Buy" /\ DOMAIN a # {} THEN ToGoodTillCancel(order, WorstAsk(a))
    ELSE IF order.side = "Sell" /\ DOMAIN b # {} THEN ToGoodTillCancel(order, WorstBid(b))
    ELSE order

\* The branch AddOrder takes for `order`, data_ being iterated in the order `levels`.
Admission(bk, levels, order) ==
    IF order.id \in DOMAIN bk.orders THEN "duplicate"
    ELSE IF order.type = "Market" /\ Rewritten(bk.bids, bk.asks, order).type = "Market"
    THEN "no_liquidity"
    ELSE IF order.type = "FillAndKill" /\ ~CanMatch(bk.bids, bk.asks, order.side, order.price)
    THEN "cannot_match"
    ELSE IF order.type = "FillOrKill"
            /\ ~CanFullyFill(bk.bids, bk.asks, bk.data, levels,
                             order.side, order.price, order.remaining)
    THEN "cannot_fully_fill"
    ELSE "admitted"

\* push_front in place of push_back.
PushFront(levels, order) ==
    Put(levels, order.price,
        <<order>> \o (IF order.price \in DOMAIN levels THEN levels[order.price] ELSE <<>>))

PushBack(levels, order) ==
    Put(levels, order.price,
        Append(IF order.price \in DOMAIN levels THEN levels[order.price] ELSE <<>>, order))

\* Lines 397-414: the order joins the tail of its queue and the id index, and
\* the aggregate at its price is updated.
Insert(bk, order) ==
    Book(IF order.side = "Buy" THEN PushBack(bk.bids, order) ELSE bk.bids,
         IF order.side = "Buy" THEN bk.asks ELSE PushBack(bk.asks, order),
         Put(bk.orders, order.id, order),
         OnOrderAdded(bk.data, order))

\* AddOrder with the insertion ahead of the FillAndKill check of line 391.
AdmitBeforeCanMatch(bk, order, outcome) ==
    IF outcome \in {"admitted", "cannot_match"}
    THEN Insert(bk, Rewritten(bk.bids, bk.asks, order)) ELSE bk

\* The book when AddOrder reaches line 416, or returns before it.
Admit(bk, order, outcome) ==
    IF outcome = "admitted" THEN Insert(bk, Rewritten(bk.bids, bk.asks, order)) ELSE bk

\* `done` is where the caller goes when the call returns: "return" when it
\* keeps the returned trades until its next call, "idle" when it drops them.
Returned(done, frame) == IF done = "idle" THEN NoCall ELSE frame

AddOrder(op, submitted, done) ==
    /\ ordersMutex = NoThread
    /\ \E levels \in (IF submitted.type = "FillOrKill" THEN Orderings(DOMAIN data) ELSE {<<>>}) :
         LET bk == Book(bids, asks, orders, data)
             outcome == Admission(bk, levels, submitted)
             admitted == Admit(bk, submitted, outcome)
         IN  /\ bids' = admitted.bids
             /\ asks' = admitted.asks
             /\ orders' = admitted.orders
             /\ data' = admitted.data
             /\ arrival' = IF admitted.orders = orders THEN arrival
                           ELSE Arrived(arrival, admitted.orders[submitted.id])
             /\ ordersMutex' = IF outcome = "admitted" THEN "caller" ELSE NoThread
             /\ pc' = [pc EXCEPT !["caller"] =
                                    IF outcome = "admitted" THEN "MatchOrders" ELSE done]
             /\ call' = LET frame == Frame(op, submitted.id, submitted.type, submitted.side,
                                           submitted.price, submitted.remaining, outcome)
                        IN  IF outcome = "admitted" THEN frame ELSE Returned(done, frame)
    /\ trades' = <<>>
    /\ UNCHANGED orderIds

\* The orders a caller may submit with an id of `ids`.  A Market order is
\* submitted without a price.
Submittable(ids) ==
    {Order(type, id, side, price, quantity) :
        type \in OrderTypes \ {"Market"}, id \in ids, side \in Sides,
        price \in Prices, quantity \in Quantities}
    \cup {Order("Market", id, side, NoPrice, quantity) :
            id \in ids, side \in Sides, quantity \in Quantities}

\* A session counts its calls and makes at most `session` of them; outside a
\* session (NoSession) the calls are not counted.
Counted(session) ==
    /\ session # NoSession => calls < session
    /\ calls' = IF session = NoSession THEN calls ELSE calls + 1

AddOrderCall(ids, done, session) ==
    /\ pc["owner"] = "alive"
    /\ pc["caller"] = "idle"
    /\ Counted(session)
    /\ \E submitted \in Submittable(ids) : AddOrder("AddOrder", submitted, done)
    /\ UNCHANGED <<infos, shutdown, notified, before>>
    /\ Seen

----------------------------------------------------------------------------
\* MatchOrders, lines 266-344

\* What a read of a price through a reference into an erased map node may
\* yield (lines 316-317 and 322-323 read bidPrice and askPrice after the node
\* that holds them is erased): the price that was there, or anything else.
\* NoPrice stands for every value that is no key of data_.
DanglingPrices == Prices \cup {NoPrice}

\* What locking ordersMutex_ again on the thread that holds it may do (lines
\* 332 and 340 call CancelOrder from inside AddOrder's critical section): the
\* thread blocks for good, or the lock is taken as if it were free.
RelockOutcomes == {"deadlock", "proceed"}

\* `if` in place of `while` at line 271: matching stops after one trade.
CrossedOnce(b, a) ==
    trades = <<>> /\ DOMAIN b # {} /\ DOMAIN a # {} /\ BestBid(b) >= BestAsk(a)

\* bidPrice <= askPrice in place of bidPrice < askPrice at line 279: matching
\* stops when the best bid equals the best ask.
CrossedStrictly(b, a) == DOMAIN b # {} /\ DOMAIN a # {} /\ BestBid(b) > BestAsk(a)

\* Lines 273-280: the matching loop goes on while the best bid is not below
\* the best ask.
Crossed(b, a) == DOMAIN b # {} /\ DOMAIN a # {} /\ BestBid(b) >= BestAsk(a)

\* std::max in place of std::min.
MatchQuantityMax(b, a) ==
    Max({Head(b[BestBid(b)]).remaining, Head(a[BestAsk(a)]).remaining})

\* Lines 284-290: the two heads, filled by the smaller remaining quantity.
MatchQuantity(b, a) ==
    Min({Head(b[BestBid(b)]).remaining, Head(a[BestAsk(a)]).remaining})

PopOrFill(queue, order) ==
    IF IsFilled(order) THEN Tail(queue) ELSE <<order>> \o Tail(queue)

\* One pass of the inner loop (lines 284-311), followed by lines 314-324 when
\* it empties one of the two queues.
MatchStep ==
    /\ pc["caller"] = "MatchOrders"
    /\ Crossed(bids, asks)
    /\ LET bidPrice == BestBid(bids)
           askPrice == BestAsk(asks)
           quantity == MatchQuantity(bids, asks)
           bid == Fill(Head(bids[bidPrice]), quantity)
           ask == Fill(Head(asks[askPrice]), quantity)
           bidQueue == PopOrFill(bids[bidPrice], bid)
           askQueue == PopOrFill(asks[askPrice], ask)
           filled == {o.id : o \in {x \in {bid, ask} : IsFilled(x)}}
           matched == OnOrderMatched(OnOrderMatched(data, bid.price, quantity, IsFilled(bid)),
                                     ask.price, quantity, IsFilled(ask))
       IN  /\ bids' = IF bidQueue = <<>> THEN Erase(bids, bidPrice)
                      ELSE Put(bids, bidPrice, bidQueue)
           /\ asks' = IF askQueue = <<>> THEN Erase(asks, askPrice)
                      ELSE Put(asks, askPrice, askQueue)
           /\ orders' = [id \in (DOMAIN orders) \ filled |->
                            IF id = bid.id THEN bid ELSE IF id = ask.id THEN ask
                            ELSE orders[id]]
           /\ trades' = Append(trades, Trade(bid, ask, quantity))
           /\ \E staleBid \in (IF bidQueue = <<>> THEN DanglingPrices ELSE {NoPrice}),
                 staleAsk \in (IF askQueue = <<>> THEN DanglingPrices ELSE {NoPrice}) :
                 data' = Erase(Erase(matched, staleBid), staleAsk)
           /\ arrival' = Resident(arrival, bids', asks')
    /\ UNCHANGED <<ordersMutex, pc, call, orderIds, calls>>
    /\ UNCHANGED <<infos, shutdown, notified, before>>
    /\ Seen

HeadIsFillAndKill(levels, best) ==
    DOMAIN levels # {} /\ Head(levels[best]).type = "FillAndKill"

\* Lines 327-343: the loop has ended; the head of each side is cancelled
\* through CancelOrder when it is a FillAndKill order, and the trades are
\* returned.  `relock` is what the two nested locks do.
MatchReturn(done) ==
    /\ pc["caller"] = "MatchOrders"
    /\ ~Crossed(bids, asks)
    /\ \E relock \in [Sides -> RelockOutcomes] :
         LET bk0 == Book(bids, asks, orders, data)
             bidTail == HeadIsFillAndKill(bk0.bids, BestBid(bk0.bids))
             bk1 == IF bidTail /\ relock["Buy"] = "proceed"
                    THEN CancelOrderInternal(bk0, Head(bk0.bids[BestBid(bk0.bids)]).id)
                    ELSE bk0
             bidBlocks == bidTail /\ relock["Buy"] = "deadlock"
             askTail == ~bidBlocks /\ HeadIsFillAndKill(bk1.asks, BestAsk(bk1.asks))
             bk2 == IF askTail /\ relock["Sell"] = "proceed"
                    THEN CancelOrderInternal(bk1, Head(bk1.asks[BestAsk(bk1.asks)]).id)
                    ELSE bk1
             blocks == bidBlocks \/ (askTail /\ relock["Sell"] = "deadlock")
         IN  /\ bids' = bk2.bids
             /\ asks' = bk2.asks
             /\ orders' = bk2.orders
             /\ data' = bk2.data
             /\ arrival' = Resident(arrival, bk2.bids, bk2.asks)
             /\ ordersMutex' = IF blocks THEN "caller" ELSE NoThread
             /\ pc' = [pc EXCEPT !["caller"] = IF blocks THEN "CancelOrder" ELSE done]
             /\ call' = IF blocks THEN call ELSE Returned(done, call)
             /\ trades' = IF blocks \/ done # "idle" THEN trades ELSE <<>>
    /\ UNCHANGED <<orderIds, calls>>
    /\ UNCHANGED <<infos, shutdown, notified, before>>
    /\ Seen

\* The calls as functions of the book, for a call that runs alone: the results
\* each may return with.

\* Lines 282-324: the book and the trade after one pass of the inner loop on
\* a crossed book, for each value the reads of an erased price may yield.
MatchPasses(bk) ==
    LET bidPrice == BestBid(bk.bids)
        askPrice == BestAsk(bk.asks)
        quantity == MatchQuantity(bk.bids, bk.asks)
        bid == Fill(Head(bk.bids[bidPrice]), quantity)
        ask == Fill(Head(bk.asks[askPrice]), quantity)
        bidQueue == PopOrFill(bk.bids[bidPrice], bid)
        askQueue == PopOrFill(bk.asks[askPrice], ask)
        index == [id \in (DOMAIN bk.orders) \ {o.id : o \in {x \in {bid, ask} : IsFilled(x)}} |->
                    IF id = bid.id THEN bid ELSE IF id = ask.id THEN ask ELSE bk.orders[id]]
        matched == OnOrderMatched(OnOrderMatched(bk.data, bid.price, quantity, IsFilled(bid)),
                                  ask.price, quantity, IsFilled(ask))
    IN  {[book |-> Book(IF bidQueue = <<>> THEN Erase(bk.bids, bidPrice)
                        ELSE Put(bk.bids, bidPrice, bidQueue),
                        IF askQueue = <<>> THEN Erase(bk.asks, askPrice)
                        ELSE Put(bk.asks, askPrice, askQueue),
                        index,
                        Erase(Erase(matched, staleBid), staleAsk)),
          trade |-> Trade(bid, ask, quantity)] :
            staleBid \in (IF bidQueue = <<>> THEN DanglingPrices ELSE {NoPrice}),
            staleAsk \in (IF askQueue = <<>> THEN DanglingPrices ELSE {NoPrice})}

\* Lines 327-341, when the nested locks are taken as if the mutex were free.
MatchTail(bk) ==
    LET bidTail == IF HeadIsFillAndKill(bk.bids, BestBid(bk.bids))
                   THEN CancelOrderInternal(bk, Head(bk.bids[BestBid(bk.bids)]).id) ELSE bk
    IN  IF HeadIsFillAndKill(bidTail.asks, BestAsk(bidTail.asks))
        THEN CancelOrderInternal(bidTail, Head(bidTail.asks[BestAsk(bidTail.asks)]).id)
        ELSE bidTail

\* Lines 266-344: the books and trade lists MatchOrders may return with.
RECURSIVE MatchOrders(_, _)
MatchOrders(bk, matches) ==
    IF Crossed(bk.bids, bk.asks)
    THEN UNION {MatchOrders(pass.book, Append(matches, pass.trade)) : pass \in MatchPasses(bk)}
    ELSE {[book |-> MatchTail(bk), trades |-> matches]}

\* Lines 368-418: the books and trade lists AddOrder(order) may return with.
AddOrderReturns(bk, order) ==
    UNION {LET outcome == Admission(bk, levels, order)
           IN  IF outcome = "admitted" THEN MatchOrders(Admit(bk, order, outcome), <<>>)
               ELSE {[book |-> bk, trades |-> <<>>]} :
           levels \in (IF order.type = "FillOrKill" THEN Orderings(DOMAIN bk.data)
                       ELSE {<<>>})}

\* CancelOrder(order.id) followed by AddOrder(order).
CancelThenAdd(bk, order) == AddOrderReturns(CancelOrderInternal(bk, order.id), order)

\* The caller takes the returned trade list.
Return ==
    /\ pc["caller"] = "return"
    /\ pc' = [pc EXCEPT !["caller"] = "idle"]
    /\ call' = NoCall
    /\ trades' = <<>>
    /\ before' = NoBook
    /\ UNCHANGED <<bids, asks, orders, data, ordersMutex, orderIds, arrival, calls>>
    /\ UNCHANGED <<infos, shutdown, notified>>
    /\ Seen

----------------------------------------------------------------------------
\* CancelOrder, lines 420-425, and ModifyOrder, lines 427-443

\* CancelOrder that cancels nothing.
CancelOrderSkipped(orderId, next) ==
    /\ ordersMutex = NoThread
    /\ pc' = [pc EXCEPT !["caller"] = next]
    /\ UNCHANGED <<bids, asks, orders, data, arrival, ordersMutex, trades, orderIds>>

\* Lines 420-425.
CancelOrder(orderId, next) ==
    /\ ordersMutex = NoThread
    /\ LET bk == CancelOrderInternal(Book(bids, asks, orders, data), orderId)
       IN  /\ bids' = bk.bids
           /\ asks' = bk.asks
           /\ orders' = bk.orders
           /\ data' = bk.data
           /\ arrival' = Resident(arrival, bk.bids, bk.asks)
    /\ pc' = [pc EXCEPT !["caller"] = next]
    /\ UNCHANGED <<ordersMutex, trades, orderIds>>

CancelOrderCall(ids, session) ==
    /\ pc["owner"] = "alive"
    /\ pc["caller"] = "idle"
    /\ Counted(session)
    /\ \E orderId \in ids : CancelOrder(orderId, "idle")
    /\ UNCHANGED call
    /\ UNCHANGED <<infos, shutdown, notified, before>>
    /\ Seen

\* GoodTillCancel in place of the type of the resident order.
ResidentTypeGoodTillCancel(o, orderId) == "GoodTillCancel"

\* Lines 435-437: the type of the resident order.
ResidentType(o, orderId) == o[orderId].type

\* Lines 431-439: the first critical section of ModifyOrder.
ModifyOrderCall(ids, done, session) ==
    /\ pc["owner"] = "alive"
    /\ pc["caller"] = "idle"
    /\ Counted(session)
    /\ ordersMutex = NoThread
    /\ \E orderId \in ids :
         IF orderId \notin DOMAIN orders
         THEN /\ pc' = [pc EXCEPT !["caller"] = done]
              /\ call' = Returned(done, Frame("ModifyOrder", orderId, "none", "none",
                                                NoPrice, 0, "missing"))
              /\ before' = NoBook
         ELSE /\ pc' = [pc EXCEPT !["caller"] = "ModifyOrder_cancel"]
              /\ call' = Frame("ModifyOrder", orderId, ResidentType(orders, orderId), "none",
                                NoPrice, 0, "found")
              /\ before' = IF done = "idle" THEN NoBook ELSE Book(bids, asks, orders, data)
    /\ trades' = <<>>
    /\ UNCHANGED <<bids, asks, orders, data, ordersMutex, orderIds, arrival>>
    /\ UNCHANGED <<infos, shutdown, notified>>
    /\ Seen

\* Line 441.
ModifyOrderCancel ==
    /\ pc["caller"] = "ModifyOrder_cancel"
    /\ CancelOrder(call.id, "ModifyOrder_add")
    /\ UNCHANGED <<call, calls>>
    /\ UNCHANGED <<infos, shutdown, notified, before>>
    /\ Seen

\* Line 442.  The request's side, price and quantity are first read here, so
\* they are drawn here.
ModifyOrderAdd(done) ==
    /\ pc["caller"] = "ModifyOrder_add"
    /\ \E side \in Sides, price \in Prices, quantity \in Quantities :
         AddOrder("ModifyOrder",
                  ToOrderPointer([id |-> call.id, side |-> side, price |-> price,
                                  quantity |-> quantity], call.type), done)
    /\ UNCHANGED calls
    /\ UNCHANGED <<infos, shutdown, notified, before>>
    /\ Seen

----------------------------------------------------------------------------
\* PruneGoodForDayOrders, lines 33-81, and CancelOrders, lines 109-115

\* Lines 56-58: the mutex is taken and shutdown_ is loaded; the worker
\* returns when the flag is set, and goes on to wait_for otherwise.
PruneLock ==
    /\ pc["worker"] = "wait"
    /\ ordersMutex = NoThread
    /\ IF shutdown
       THEN /\ pc' = [pc EXCEPT !["worker"] = "exited"]
            /\ UNCHANGED ordersMutex
       ELSE /\ pc' = [pc EXCEPT !["worker"] = "wait_for"]
            /\ ordersMutex' = "worker"
    /\ UNCHANGED <<bids, asks, orders, data, call, trades, orderIds, arrival, calls>>
    /\ UNCHANGED <<infos, shutdown, notified, before>>
    /\ Seen

\* Line 59: wait_for releases the mutex and blocks, in one step.
PruneWaitFor ==
    /\ pc["worker"] = "wait_for"
    /\ pc' = [pc EXCEPT !["worker"] = "waiting"]
    /\ ordersMutex' = NoThread
    /\ UNCHANGED <<bids, asks, orders, data, call, trades, orderIds, arrival, calls>>
    /\ UNCHANGED <<infos, shutdown, notified, before>>
    /\ Seen

\* Lines 59-60: the blocked worker was notified; wait_for takes the mutex
\* again, returns no_timeout, and the worker returns.
PruneNotified ==
    /\ pc["worker"] = "waiting"
    /\ notified
    /\ ordersMutex = NoThread
    /\ pc' = [pc EXCEPT !["worker"] = "exited"]
    /\ notified' = FALSE
    /\ UNCHANGED <<bids, asks, orders, data, ordersMutex, call, trades, orderIds, arrival, calls>>
    /\ UNCHANGED <<infos, shutdown, before>>
    /\ Seen

\* Lines 59-61: the timed wait runs out; the mutex is taken again and released.
PruneTimeout ==
    /\ pc["worker"] = "waiting"
    /\ ordersMutex = NoThread
    /\ pc' = [pc EXCEPT !["worker"] = "collect"]
    /\ UNCHANGED <<bids, asks, orders, data, ordersMutex, call, trades, orderIds, arrival, calls>>
    /\ UNCHANGED <<infos, shutdown, notified, before>>
    /\ Seen

\* Lines 63-77.
PruneCollect ==
    /\ pc["worker"] = "collect"
    /\ ordersMutex = NoThread
    /\ orderIds' = {id \in DOMAIN orders : orders[id].type = "GoodForDay"}
    /\ pc' = [pc EXCEPT !["worker"] = "cancel"]
    /\ UNCHANGED <<bids, asks, orders, data, ordersMutex, call, trades, arrival, calls>>
    /\ UNCHANGED <<infos, shutdown, notified, before>>
    /\ Seen

\* Line 79: CancelOrders(orderIds).  The vector holds the ids in the order in
\* which the unordered_map orders_ was iterated.
PruneCancelOrders ==
    /\ pc["worker"] = "cancel"
    /\ ordersMutex = NoThread
    /\ \E ids \in Orderings(orderIds) :
         LET bk == CancelOrdersLoop(Book(bids, asks, orders, data), ids)
         IN  /\ bids' = bk.bids
             /\ asks' = bk.asks
             /\ orders' = bk.orders
             /\ data' = bk.data
             /\ arrival' = Resident(arrival, bk.bids, bk.asks)
    /\ orderIds' = {}
    /\ pc' = [pc EXCEPT !["worker"] = "wait"]
    /\ UNCHANGED <<ordersMutex, call, trades, calls>>
    /\ UNCHANGED <<infos, shutdown, notified, before>>
    /\ Seen

\* Size, lines 445-449.
Size == Cardinality(DOMAIN orders)

----------------------------------------------------------------------------
\* The caller's steps: calls on an id of `ids`, counted in a session, the
\* caller dropping (done = "idle") or keeping (done = "return") what a call
\* returns.
CallerNext(ids, done, session) ==
    \/ AddOrderCall(ids, done, session)
    \/ MatchStep
    \/ MatchReturn(done)
    \/ CancelOrderCall(ids, session)
    \/ ModifyOrderCall(ids, done, session)
    \/ ModifyOrderCancel
    \/ ModifyOrderAdd(done)

WorkerNext ==
    \/ PruneLock
    \/ PruneWaitFor
    \/ PruneNotified
    \/ PruneTimeout
    \/ PruneCollect
    \/ PruneCancelOrders

----------------------------------------------------------------------------
\* ~Orderbook, lines 361-366.  The destructor takes no lock.  It runs when
\* no call is in progress, and no call is made once it has begun.

\* Line 363.
DestructorStore ==
    /\ pc["owner"] = "alive"
    /\ pc["caller"] = "idle"
    /\ shutdown' = TRUE
    /\ pc' = [pc EXCEPT !["owner"] = "notify_one"]
    /\ UNCHANGED <<bids, asks, orders, data, ordersMutex, call, trades, orderIds, arrival, calls>>
    /\ UNCHANGED <<infos, notified, before>>
    /\ Seen

\* Line 364: notify_one wakes the worker if it is blocked in wait_for, and
\* does nothing otherwise.
DestructorNotify ==
    /\ pc["owner"] = "notify_one"
    /\ notified' = (pc["worker"] = "waiting")
    /\ pc' = [pc EXCEPT !["owner"] = "join"]
    /\ UNCHANGED <<bids, asks, orders, data, ordersMutex, call, trades, orderIds, arrival, calls>>
    /\ UNCHANGED <<infos, shutdown, before>>
    /\ Seen

\* Line 365.
DestructorJoin ==
    /\ pc["owner"] = "join"
    /\ pc["worker"] = "exited"
    /\ pc' = [pc EXCEPT !["owner"] = "joined"]
    /\ UNCHANGED <<bids, asks, orders, data, ordersMutex, call, trades, orderIds, arrival, calls>>
    /\ UNCHANGED <<infos, shutdown, notified, before>>
    /\ Seen

OwnerNext ==
    \/ DestructorStore
    \/ DestructorNotify
    \/ DestructorJoin

----------------------------------------------------------------------------
\* GetOrderInfos, lines 451-472.  No lock is taken: the two loops read bids_
\* and asks_ while other threads may be inside their critical sections.

\* Lines 464-465.
GetOrderInfosBids ==
    /\ pc["reader"] = "idle"
    /\ pc' = [pc EXCEPT !["reader"] = "GetOrderInfos_asks"]
    /\ infos' = OrderbookLevelInfos(LevelInfos(bids), EmptyMap)
    /\ UNCHANGED <<bids, asks, orders, data, ordersMutex, call, trades, orderIds, arrival, calls,
                   shutdown, notified, before>>
    /\ Seen

\* Lines 467-470.
GetOrderInfosAsks ==
    /\ pc["reader"] = "GetOrderInfos_asks"
    /\ pc' = [pc EXCEPT !["reader"] = "return"]
    /\ infos' = OrderbookLevelInfos(infos.bids, LevelInfos(asks))
    /\ UNCHANGED <<bids, asks, orders, data, ordersMutex, call, trades, orderIds, arrival, calls,
                   shutdown, notified, before>>
    /\ Seen

ReaderNext ==
    \/ GetOrderInfosBids
    \/ GetOrderInfosAsks

----------------------------------------------------------------------------
\* The caller, the expiry thread and the owner that destroys the book.
Next == CallerNext(OrderIds, "idle", NoSession) \/ WorkerNext \/ OwnerNext

Spec == Init /\ [][Next]_vars

\* The caller alone, within one trading day, each call's result being kept
\* until the caller's next call.
NextCalls == CallerNext(OrderIds, "return", NoSession) \/ Return

SpecCalls == Init /\ [][NextCalls]_vars

\* A session: the caller alone, within one trading day, making at most
\* MaxCalls calls on the ids 1..MaxSessionOrderId.
NextSession == CallerNext(SessionOrderIds, "idle", MaxCalls)

SpecSession == Init /\ [][NextSession]_vars

\* A session of at most MaxSnapshotCalls calls, on the ids 1..MaxOrderId,
\* beside a thread that calls GetOrderInfos once.
NextSnapshot == CallerNext(OrderIds, "idle", MaxSnapshotCalls) \/ ReaderNext

SpecSnapshot == Start("idle") /\ [][NextSnapshot]_vars

----------------------------------------------------------------------------
\* Properties

\* The orders queued at a price, on either side.
LevelOrders(price) ==
    (IF price \in DOMAIN bids THEN bids[price] ELSE <<>>)
        \o (IF price \in DOMAIN asks THEN asks[price] ELSE <<>>)

RECURSIVE TradedQuantity(_)
TradedQuantity(list) ==
    IF list = <<>> THEN 0 ELSE Head(list).bid.quantity + TradedQuantity(Tail(list))

\* No thread is inside a critical section: every operation begun is completed.
AtBoundary == ordersMutex = NoThread

\* C1: at every critical-section boundary, every price present in bids or
\* asks has an aggregate entry whose count is the number of orders queued at
\* that price and whose quantity is the sum of their remaining quantities,
\* and the aggregate table has no entry at any other price.
C1_AggregateMatchesQueues ==
    AtBoundary =>
        /\ \A price \in (DOMAIN bids) \cup (DOMAIN asks) :
              /\ price \in DOMAIN data
              /\ data[price].count = Len(LevelOrders(price))
              /\ data[price].quantity = SumRemaining(LevelOrders(price))
        /\ \A price \in DOMAIN data : price \in (DOMAIN bids) \cup (DOMAIN asks)

\* C2: when an AddOrder of a FillOrKill order has returned: if CanFullyFill
\* returned false, no trade is returned and the order is not in the book; if
\* it returned true, the returned trades sum to the order's initial quantity
\* and the order is not in the book.
C2_FillOrKillAllOrNothing ==
    (pc["caller"] = "return" /\ call.type = "FillOrKill") =>
        /\ call.outcome = "cannot_fully_fill" =>
              trades = <<>> /\ call.id \notin DOMAIN orders
        /\ call.outcome = "admitted" =>
              TradedQuantity(trades) = call.quantity /\ call.id \notin DOMAIN orders

\* C3: once the matching of an admitted FillAndKill order has ended, AddOrder
\* has returned the trades of the filled part and the order is not in the book.
C3_FillAndKillNotResident ==
    (call.type = "FillAndKill" /\ call.outcome = "admitted"
        /\ pc["caller"] # "MatchOrders") =>
        /\ pc["caller"] = "return"
        /\ trades # <<>>
        /\ call.id \notin DOMAIN orders

\* C4: no thread requests ordersMutex_ while it holds it, so that every call
\* returns with the mutex released.
C4_NoRelock ==
    ~(pc["caller"] = "CancelOrder" /\ ordersMutex = "caller")

\* C10: when an AddOrder of a Market order has returned, the order is not in
\* the book.
C10_MarketNotResident ==
    (pc["caller"] = "return" /\ call.op = "AddOrder" /\ call.type = "Market"
        /\ call.outcome # "duplicate") =>
        call.id \notin DOMAIN orders

\* The trade a step appends to the trade list.
EmitsTrade == Len(trades') = Len(trades) + 1 /\ SubSeq(trades', 1, Len(trades)) = trades
Emitted == trades'[Len(trades')]

\* The resident orders of a side, by the id index.
ResidentOn(side) == {id \in DOMAIN orders : orders[id].side = side}

\* C5: every trade the matching loop emits is between the earliest-arrived
\* resident order at the highest resident bid price and the earliest-arrived
\* resident order at the lowest resident ask price, and a step changes the
\* remaining quantity of no other order.
C5_PriceTimePriority ==
    [][ /\ EmitsTrade =>
            LET bidPrice == Max({orders[id].price : id \in ResidentOn("Buy")})
                askPrice == Min({orders[id].price : id \in ResidentOn("Sell")})
            IN  /\ ResidentOn("Buy") # {} /\ ResidentOn("Sell") # {}
                /\ Emitted.bid.orderId = Head(arrival["Buy"][bidPrice])
                /\ Emitted.ask.orderId = Head(arrival["Sell"][askPrice])
        /\ \A id \in (DOMAIN orders) \cap (DOMAIN orders') :
              orders'[id].remaining # orders[id].remaining =>
                  EmitsTrade /\ id \in {Emitted.bid.orderId, Emitted.ask.orderId}
      ]_vars

\* A trade has been emitted with the earlier of two bids at one price, the
\* later one being resident still.
C5_EarlierBidTraded ==
    /\ pc["caller"] = "MatchOrders"
    /\ Len(trades) = 1
    /\ \E id \in ResidentOn("Buy") :
          /\ id # trades[1].bid.orderId
          /\ orders[id].price = trades[1].bid.price

\* C6: every trade of the list AddOrder(o) builds and returns has o's id on
\* its bid side or on its ask side.
C6_TradesInvolveAddedOrder ==
    \A i \in 1..Len(trades) : call.id \in {trades[i].bid.orderId, trades[i].ask.orderId}

\* The added order has traded with two resident orders.
C6_TwoTrades ==
    /\ Len(trades) = 2
    /\ {trades[1].bid.orderId, trades[1].ask.orderId}
          # {trades[2].bid.orderId, trades[2].ask.orderId}

\* C7: every trade emitted is between a resident bid and a resident ask,
\* reports each order's own price, the bid's not below the ask's, and carries
\* on both sides the smaller of the two remaining quantities before the fill.
C7_TradeWellFormed ==
    [][ EmitsTrade =>
            /\ Emitted.bid.orderId \in ResidentOn("Buy")
            /\ Emitted.ask.orderId \in ResidentOn("Sell")
            /\ LET bid == orders[Emitted.bid.orderId]
                   ask == orders[Emitted.ask.orderId]
               IN  /\ Emitted.bid.price = bid.price
                   /\ Emitted.ask.price = ask.price
                   /\ Emitted.bid.price >= Emitted.ask.price
                   /\ Emitted.bid.quantity = Emitted.ask.quantity
                   /\ Emitted.bid.quantity = Min({bid.remaining, ask.remaining})
      ]_vars

\* A trade has been returned whose bid price is above its ask price, one of
\* the two orders being filled in part only.
C7_TradeAcrossPrices ==
    /\ pc["caller"] = "return"
    /\ \E i \in 1..Len(trades) :
          /\ trades[i].bid.price > trades[i].ask.price
          /\ \E id \in DOMAIN orders : id \in {trades[i].bid.orderId, trades[i].ask.orderId}

\* The places of an id in the queues of one side: <<price, position>>.
Places(levels, id) ==
    UNION {{<<price, i>> : i \in {j \in 1..Len(levels[price]) : levels[price][j].id = id}} :
              price \in DOMAIN levels}

RECURSIVE QueuedCount(_)
QueuedCount(levels) ==
    IF DOMAIN levels = {} THEN 0
    ELSE LET p == CHOOSE x \in DOMAIN levels : TRUE
         IN  Len(levels[p]) + QueuedCount(Erase(levels, p))

\* Every id of the index is queued once, on its order's side and at its
\* order's price; no other id is queued; Size() is the number of queued orders.
IndexMatchesQueues ==
    /\ \A id \in DOMAIN orders :
          LET order == orders[id]
              own == IF order.side = "Buy" THEN bids ELSE asks
              other == IF order.side = "Buy" THEN asks ELSE bids
          IN  /\ Places(other, id) = {}
              /\ Cardinality(Places(own, id)) = 1
              /\ \A place \in Places(own, id) :
                    place[1] = order.price /\ own[place[1]][place[2]] = order
    /\ Queued(bids, asks) \subseteq DOMAIN orders
    /\ Size = QueuedCount(bids) + QueuedCount(asks)

\* C8: after every completed operation, the id index and the queues agree
\* (IndexMatchesQueues), and an order removed by a full fill, by the cancel of
\* ModifyOrder or by the expiry pass is in neither.
C8_IndexMatchesQueues ==
    [][ /\ AtBoundary' => IndexMatchesQueues'
        /\ EmitsTrade =>
              \A id \in {Emitted.bid.orderId, Emitted.ask.orderId} \cap DOMAIN orders :
                  orders[id].remaining = Emitted.bid.quantity =>
                      id \notin (DOMAIN orders') \cup Queued(bids', asks')
        /\ (pc["caller"] = "ModifyOrder_cancel" /\ pc'["caller"] = "ModifyOrder_add") =>
              call.id \notin (DOMAIN orders') \cup Queued(bids', asks')
        /\ (pc["worker"] = "cancel" /\ pc'["worker"] = "wait") =>
              orderIds \cap ((DOMAIN orders') \cup Queued(bids', asks')) = {}
      ]_vars

\* A GoodForDay order that the expiry pass collected has since been removed
\* by the caller, and another order is resident.
C8_RemovedAndResident ==
    /\ AtBoundary
    /\ pc["worker"] = "cancel"
    /\ \E id \in orderIds : id \notin DOMAIN orders
    /\ Size = 1

\* The opposite side holds an order that `price` crosses.
Crosses(side, price) ==
    \E id \in DOMAIN orders :
        /\ orders[id].side # side
        /\ IF side = "Buy" THEN orders[id].price <= price ELSE orders[id].price >= price

\* C9: an AddOrder with a resident id, of a Market order with an empty
\* opposite side, of a FillAndKill order that crosses no opposite order, or of
\* a FillOrKill order whose pre-check fails, and a ModifyOrder of an id that
\* is not resident, return at once with an empty trade list and leave the
\* side books, the id index and the aggregate table as they were.
C9_RejectedChangesNothing ==
    [][ /\ (pc["caller"] \in {"idle", "ModifyOrder_add"} /\ call'.op \in {"AddOrder", "ModifyOrder"}
              /\ call'.outcome # "missing" /\ call'.outcome # "found") =>
              LET rejected ==
                      \/ call'.id \in DOMAIN orders
                      \/ call'.type = "Market" /\ ResidentOn(IF call'.side = "Buy" THEN "Sell" ELSE "Buy") = {}
                      \/ call'.type = "FillAndKill" /\ ~Crosses(call'.side, call'.price)
                      \/ call'.outcome = "cannot_fully_fill"
              IN  IF rejected
                  THEN pc'["caller"] = "return" /\ trades' = <<>> /\ book' = book
                  ELSE pc'["caller"] = "MatchOrders" /\ call'.id \in DOMAIN orders'
        /\ (pc["caller"] = "idle" /\ call'.op = "ModifyOrder" /\ call'.id \notin DOMAIN orders) =>
              pc'["caller"] = "return" /\ trades' = <<>> /\ book' = book
      ]_vars

\* A FillOrKill order that crosses the opposite side has been rejected by the
\* pre-check.
C9_FillOrKillRejected ==
    /\ pc["caller"] = "return"
    /\ call.type = "FillOrKill"
    /\ call.outcome = "cannot_fully_fill"
    /\ Crosses(call.side, call.price)
    /\ trades = <<>>

\* C11: the snapshot GetOrderInfos returns is the book as it stood at some
\* critical-section boundary, never an intermediate state: once the reader
\* has returned and the critical section it overlapped has ended, the
\* snapshot is among the level infos the book had at the boundaries so far.
C11_SnapshotAtBoundary ==
    (pc["reader"] = "return" /\ AtBoundary) => infos \in seen

\* C12: shutdown is prompt.  Once the destructor has stored the flag and
\* issued its notification, the worker is not about to block, or blocked, in
\* the timed wait without a notification to wake it: its exit never depends
\* on the timed wait running out.
C12_ShutdownPrompt ==
    (shutdown /\ pc["owner"] = "join") =>
        /\ pc["worker"] # "wait_for"
        /\ pc["worker"] = "waiting" => notified

\* C13: for a call that runs alone, ModifyOrder({id, side, price, quantity})
\* on a resident id returns with the books, the id index, the aggregates and
\* the trade list that CancelOrder(id) followed by AddOrder of the order
\* {type of the resident order, id, side, price, quantity} returns with.
C13_ModifyIsCancelThenAdd ==
    (pc["caller"] = "return" /\ call.op = "ModifyOrder" /\ call.outcome # "missing") =>
        [book |-> Book(bids, asks, orders, data), trades |-> trades]
            \in CancelThenAdd(before,
                              Order(before.orders[call.id].type, call.id, call.side,
                                    call.price, call.quantity))

\* A resident order was moved to the other side by ModifyOrder and traded there.
C13_ModifiedAndTraded ==
    /\ pc["caller"] = "return"
    /\ call.op = "ModifyOrder"
    /\ call.outcome = "admitted"
    /\ call.id \in DOMAIN before.orders
    /\ before.orders[call.id].side # call.side
    /\ trades # <<>>
    /\ call.id \in DOMAIN orders

\* The orders queued on a side, at every position of every queue.
QueuedOrders(levels) ==
    UNION {{levels[price][i] : i \in 1..Len(levels[price])} : price \in DOMAIN levels}

\* C14: an expiry pass collects the id of every GoodForDay order resident at
\* any position of any queue on either side, and when the pass completes none
\* of the collected ids is resident: none is in the id index or in a queue.
C14_ExpiryRemovesGoodForDay ==
    [][ /\ (pc["worker"] = "collect" /\ pc'["worker"] = "cancel") =>
              orderIds' = {order.id : order \in
                              {queued \in QueuedOrders(bids) \cup QueuedOrders(asks) :
                                  queued.type = "GoodForDay"}}
        /\ (pc["worker"] = "cancel" /\ pc'["worker"] = "wait") =>
              \A id \in orderIds :
                  /\ id \notin DOMAIN orders'
                  /\ Places(bids', id) = {}
                  /\ Places(asks', id) = {}
      ]_vars

\* The pass has collected two GoodForDay orders, one of them behind the other
\* in its queue, and is about to cancel them.
C14_CollectedBehindHead ==
    /\ pc["worker"] = "cancel"
    /\ AtBoundary
    /\ Cardinality(orderIds) = 2
    /\ orderIds \subseteq DOMAIN orders
    /\ \E id \in orderIds, side \in Sides :
          \E place \in Places(IF side = "Buy" THEN bids ELSE asks, id) : place[2] = 2

\* C15: CancelOrder is idempotent.  Every CancelOrder call is the
\* cancellation of some id; cancelling that id once more changes nothing,
\* and a CancelOrder of an id that is not resident changes nothing.
C15_CancelIdempotent ==
    [][ (pc["caller"] = "idle" /\ pc'["caller"] = "idle" /\ pc'["owner"] = "alive") =>
            LET was == Book(bids, asks, orders, data)
                is == Book(bids', asks', orders', data')
                cancelled == {id \in OrderIds : is = CancelOrderInternal(was, id)}
            IN  /\ cancelled # {}
                /\ \A id \in cancelled :
                      /\ CancelOrderInternal(is, id) = is
                      /\ id \notin DOMAIN orders => is = was
                      /\ id \notin DOMAIN orders'
      ]_vars

\* Between calls, one id is resident at a price that has lost its aggregate
\* entry and another id is not resident.
C15_ResidentAndMissing ==
    /\ pc["caller"] = "idle"
    /\ AtBoundary
    /\ \E id \in DOMAIN orders : orders[id].price \notin DOMAIN data
    /\ OrderIds \ DOMAIN orders # {}

\* The remaining quantity, summed over the queues, of the orders resting
\* opposite `side` at prices at or better than `price`.
FillableQuantity(side, price) ==
    LET opposite == IF side = "Buy" THEN asks ELSE bids
        reached == {level \in DOMAIN opposite :
                       IF side = "Buy" THEN level <= price ELSE level >= price}
        walk == CHOOSE levels \in Orderings(reached) : TRUE
    IN  SumSeq([i \in 1..Cardinality(reached) |-> SumRemaining(opposite[walk[i]])])

\* C16: between calls, CanFullyFill(side, price, quantity) is true exactly
\* when the remaining quantity of the opposite-side resident orders at prices
\* at or better than `price`, summed over the queues, is at least `quantity`.
C16_CanFullyFillFromQueues ==
    AtBoundary =>
        \A side \in Sides, price \in Prices, quantity \in Quantities :
            \A levels \in Orderings(DOMAIN data) :
                CanFullyFill(bids, asks, data, levels, side, price, quantity)
                    <=> (FillableQuantity(side, price) >= quantity)

\* C17: a price is a key of bids, or of asks, exactly when its queue on that
\* side holds an order: no key maps to an empty queue, and every resident
\* order's price is a key of its side.
C17_NoEmptyLevel ==
    /\ \A price \in DOMAIN bids : bids[price] # <<>>
    /\ \A price \in DOMAIN asks : asks[price] # <<>>
    /\ AtBoundary =>
          \A id \in DOMAIN orders :
              orders[id].price \in DOMAIN (IF orders[id].side = "Buy" THEN bids ELSE asks)

\* Matching has ended with one trade that filled the only ask at its price:
\* the price is no longer a key of asks, and the bid that traded still rests.
C17_LastAskFilled ==
    /\ pc["caller"] = "MatchOrders"
    /\ ~Crossed(bids, asks)
    /\ Len(trades) = 1
    /\ trades[1].ask.orderId \notin DOMAIN orders
    /\ trades[1].ask.price \notin DOMAIN asks
    /\ trades[1].bid.orderId \in DOMAIN orders
    /\ trades[1].bid.price \in DOMAIN bids

\* C18: ModifyOrder does not preserve time priority.  From the AddOrder of a
\* ModifyOrder call to its return, the replacement, while it is resident, is
\* the last order of the queue at its new price on its new side, behind
\* every order that was queued there before the call.
C18_ModifyLosesPriority ==
    [][ (call.op = "ModifyOrder" /\ pc["caller"] \in {"ModifyOrder_add", "MatchOrders"}
           /\ call.id \in DOMAIN orders') =>
            LET order == orders'[call.id]
                own == IF order.side = "Buy" THEN bids' ELSE asks'
            IN  /\ order.price \in DOMAIN own
                /\ own[order.price][Len(own[order.price])].id = call.id
      ]_vars

\* The AddOrder of a ModifyOrder call is about to return without a trade, and
\* the replacement rests behind another order at its price.
C18_ReplacementBehind ==
    /\ pc["caller"] = "MatchOrders"
    /\ call.op = "ModifyOrder"
    /\ ~Crossed(bids, asks)
    /\ trades = <<>>
    /\ call.id \in DOMAIN orders
    /\ \E side \in Sides :
          \E place \in Places(IF side = "Buy" THEN bids ELSE asks, call.id) : place[2] > 1

\* C19: the book is never left crossed.  At every critical-section boundary,
\* that is after every completed AddOrder, CancelOrder, ModifyOrder and
\* expiry pass, one side is empty or the highest bid price is below the
\* lowest ask price.
C19_NeverCrossed ==
    AtBoundary =>
        \/ DOMAIN bids = {}
        \/ DOMAIN asks = {}
        \/ \A bidPrice \in DOMAIN bids, askPrice \in DOMAIN asks : bidPrice < askPrice

\* Between operations both sides hold an order, one of them left by a trade
\* that emptied the other side's queue at its price.
C19_BothSidesRest ==
    /\ AtBoundary
    /\ pc["caller"] = "idle"
    /\ DOMAIN bids # {}
    /\ DOMAIN asks # {}
    /\ \E id \in DOMAIN orders : orders[id].price \notin DOMAIN data

\* C20: the expiry worker removes only GoodForDay orders: no order that is
\* resident with type GoodTillCancel when the batch cancel runs is removed by
\* it, whatever the callers have done since the ids were collected.
C20_ExpiryRemovesOnlyGoodForDay ==
    [][ (pc["worker"] = "cancel" /\ pc'["worker"] = "wait") =>
            \A id \in (DOMAIN orders) \ (DOMAIN orders') :
                orders[id].type # "GoodTillCancel"
      ]_vars

====
